---- MODULE Spec2Model ----
(***************************************************************************)
(* Post-ranking stage of the NLWeb query pipeline.                         *)
(*                                                                         *)
(*   core/post_ranking.py   PostRanking.do, check_and_send_map_message,    *)
(*                          SummarizeResults.do                            *)
(*   retrieval_providers/google_custom_search_engine_client.py             *)
(*                          GoogleCustomSearchClient.search, search_by_url *)
(*                                                                         *)
(* One behaviour is one pass of PostRanking.do over one handler.  The      *)
(* handler's fields are the state; the coroutine's position is pc.  The    *)
(* coroutine runs on a single-threaded cooperative scheduler, so the task  *)
(* created for the map message can only run while the pass is suspended    *)
(* at an await of an external capability, or after the pass has returned.  *)
(***************************************************************************)
EXTENDS Integers, Sequences, FiniteSets, TLC

(***************************************************************************)
(* Python values.  A value is a record [t, v]: t is the Python type and v  *)
(* the payload.  A str is a sequence of atoms in which the characters the  *)
(* code looks for (",", " ", "{") are atoms of their own; a dict is a      *)
(* function from its keys to values; a list is a sequence of values.       *)
(***************************************************************************)
None == [t |-> "none", v |-> <<>>]

StrV(s) == [t |-> "str", v |-> s]

IntV(n) == [t |-> "int", v |-> n]

DictV(d) == [t |-> "dict", v |-> d]

ListV(l) == [t |-> "list", v |-> l]

EmptyDict == <<>>

\* bool(x): the truth value Python gives a value in `if x` and `x or y`.
Truthy(x) ==
    CASE x.t = "none" -> FALSE
      [] x.t = "str"  -> Len(x.v) > 0
      [] x.t = "int"  -> x.v # 0
      [] x.t = "dict" -> DOMAIN x.v # {}
      [] x.t = "list" -> Len(x.v) > 0

\* d.get(k, default) on a dict payload.
GetOr(d, k, default) == IF k \in DOMAIN d THEN d[k] ELSE default

\* d.get(k): the default is None.
Get(d, k) == GetOr(d, k, None)

\* Variant of OrChain that takes the first operand that is not None, that is,
\* the first field that is present with a value.
RECURSIVE OrChain_FirstNotNone(_)
OrChain_FirstNotNone(xs) ==
    IF Len(xs) = 1 THEN xs[1]
    ELSE IF xs[1].t # "none" THEN xs[1]
    ELSE OrChain_FirstNotNone(Tail(xs))

\* a or b or c or d: the first truthy operand, else the last operand.
RECURSIVE OrChain(_)
OrChain(xs) ==
    IF Len(xs) = 1 THEN xs[1]
    ELSE IF Truthy(xs[1]) THEN xs[1]
    ELSE OrChain(Tail(xs))

\* "{" in s
HasBrace(s) == \E i \in 1..Len(s) : s[i] = "{"

\* s.startswith("{")
StartsWithBrace(s) == Len(s) > 0 /\ s[1] = "{"

\* Whether the separator ", {" starts at position i of s.
SepAt(s, i) ==
    /\ i + 2 <= Len(s)
    /\ s[i] = ","
    /\ s[i + 1] = " "
    /\ s[i + 2] = "{"

\* s.split(", {")[0]: what precedes the first ", {", or all of s.
SplitFirst(s) ==
    LET hits == {i \in 1..Len(s) : SepAt(s, i)}
    IN  IF hits = {} THEN s
        ELSE LET first == CHOOSE i \in hits : \A j \in hits : i <= j
             IN  SubSeq(s, 1, first - 1)

\* Decimal digits of a natural number.
RECURSIVE Digits(_)
Digits(n) ==
    IF n < 10 THEN <<ToString(n)>>
    ELSE Digits(n \div 10) \o <<ToString(n % 10)>>

\* repr(x) of a list element.
Repr(x) ==
    CASE x.t = "str"  -> <<"'">> \o x.v \o <<"'">>
      [] x.t = "int"  -> IF x.v < 0 THEN <<"-">> \o Digits(-x.v) ELSE Digits(x.v)
      [] x.t = "none" -> <<"None">>
      [] OTHER        -> <<"...">>

RECURSIVE ReprList(_)
ReprList(l) ==
    IF Len(l) = 0 THEN <<>>
    ELSE IF Len(l) = 1 THEN Repr(l[1])
    ELSE Repr(l[1]) \o <<",", " ">> \o ReprList(Tail(l))

\* str(x)
Str(x) ==
    CASE x.t = "str"  -> x.v
      [] x.t = "int"  -> IF x.v < 0 THEN <<"-">> \o Digits(-x.v) ELSE Digits(x.v)
      [] x.t = "none" -> <<"None">>
      [] x.t = "list" -> <<"[">> \o ReprList(x.v) \o <<"]">>
      [] x.t = "dict" -> <<"{", "...", "}">>

\* ', '.join(parts) of a list of str payloads.
RECURSIVE Join(_)
Join(parts) ==
    IF Len(parts) = 0 THEN <<>>
    ELSE IF Len(parts) = 1 THEN parts[1]
    ELSE parts[1] \o <<",", " ">> \o Join(Tail(parts))

(***************************************************************************)
(* check_and_send_map_message: address resolution of one result.           *)
(***************************************************************************)
AddressFields == <<"address", "location", "streetAddress", "postalAddress">>

PartFields == <<"streetAddress", "addressLocality", "addressRegion", "postalCode">>

\* Lines 70-75: str(value) of each listed field that is present and not a dict.
RECURSIVE ScalarParts(_, _)
ScalarParts(address, fields) ==
    IF Len(fields) = 0 THEN <<>>
    ELSE LET field == fields[1]
             rest  == ScalarParts(address, Tail(fields))
         IN  IF field \in DOMAIN address /\ address[field].t # "dict"
             THEN <<StrV(Str(address[field]))>> \o rest
             ELSE rest

\* Lines 78-83: the country part; country['name'] is appended as it is.
CountryParts(address) ==
    IF "addressCountry" \in DOMAIN address
    THEN LET country == address["addressCountry"]
         IN  IF country.t = "dict" /\ "name" \in DOMAIN country.v
             THEN <<country.v["name"]>>
             ELSE IF country.t = "str" /\ ~StartsWithBrace(country.v)
             THEN <<country>>
             ELSE <<>>
    ELSE <<>>

\* Lines 67-89: a dict address.  ', '.join raises TypeError when a part is
\* not a str.
StructuredAddress(address) ==
    LET address_parts == ScalarParts(address, PartFields) \o CountryParts(address)
    IN  IF Len(address_parts) = 0 THEN [st |-> "ok", val |-> None]
        ELSE IF \E i \in 1..Len(address_parts) : address_parts[i].t # "str"
        THEN [st |-> "raise", val |-> None]
        ELSE [st |-> "ok",
              val |-> StrV(Join([i \in 1..Len(address_parts) |-> address_parts[i].v]))]

\* Lines 56-59: the value the `or` chain over the address fields yields.
AddressCandidate(schema_obj) ==
    OrChain([i \in 1..Len(AddressFields) |-> Get(schema_obj, AddressFields[i])])

\* Lines 61-89: what the candidate is turned into.  A str with "{" is cut at
\* ", {", a dict is joined from its parts, any other value is kept as it is.
ResolveCandidate(address) ==
    IF address.t = "str" /\ HasBrace(address.v)
    THEN [st |-> "ok", val |-> StrV(SplitFirst(address.v))]
    ELSE IF address.t = "dict"
    THEN StructuredAddress(address.v)
    ELSE [st |-> "ok", val |-> address]

\* Lines 53-89: the address of a schema_object.
ResolveAddress(schema_obj) ==
    IF schema_obj.t # "dict" THEN [st |-> "ok", val |-> None]
    ELSE ResolveCandidate(AddressCandidate(schema_obj.v))

\* 'schema_object' in result, for the containers Python can ask it of.
HasSchemaObject(result) ==
    CASE result.t = "dict" -> "schema_object" \in DOMAIN result.v
      [] result.t = "list" ->
             \E i \in 1..Len(result.v) :
                 result.v[i].t = "str" /\ result.v[i].v = <<"schema_object">>
      [] result.t = "str"  -> \E i \in 1..Len(result.v) : result.v[i] = "schema_object"
      [] OTHER             -> FALSE

\* Lines 44-95, one iteration: "skip", "add" (with the location) or "raise".
\* `in` raises TypeError on a value that is no container, and
\* result['schema_object'] raises on a container that is no dict.
ScanResult(result) ==
    IF result.t \notin {"dict", "list", "str"}
    THEN [st |-> "raise", loc |-> <<>>]
    ELSE IF ~HasSchemaObject(result)
    THEN [st |-> "skip", loc |-> <<>>]
    ELSE IF result.t # "dict"
    THEN [st |-> "raise", loc |-> <<>>]
    ELSE LET r == ResolveAddress(result.v["schema_object"])
         IN  IF r.st = "raise" THEN [st |-> "raise", loc |-> <<>>]
             ELSE IF Truthy(r.val)
             THEN [st |-> "add",
                   loc |-> <<[title   |-> GetOr(result.v, "name", StrV(<<"Unnamed">>)),
                              address |-> Str(r.val)]>>]
             ELSE [st |-> "skip", loc |-> <<>>]

(***************************************************************************)
(* Ranked results.  The handler's list holds result identifiers; Result    *)
(* gives the record each identifier stands for.                            *)
(***************************************************************************)
MainSt == <<"1 Main St">>

Result(id) ==
    CASE id = "cafe" ->    \* a plain string address
             DictV([name |-> StrV(<<"Cafe">>),
                    schema_object |-> DictV([address |-> StrV(MainSt)])])
      [] id = "inn" ->     \* a structured address
             DictV([name |-> StrV(<<"Inn">>),
                    schema_object |->
                        DictV([address |->
                            DictV([streetAddress   |-> StrV(MainSt),
                                   addressLocality |-> StrV(<<"Springfield">>),
                                   addressCountry  |->
                                       DictV([name |-> StrV(<<"USA">>)])])])])
      [] id = "doc" ->     \* a schema_object without any address field
             DictV([name |-> StrV(<<"Doc">>),
                    schema_object |-> DictV([url |-> StrV(<<"http://d">>)])])
      [] id = "page" ->    \* no schema_object
             DictV([name |-> StrV(<<"Page">>)])
      [] id = "zoo" ->     \* a country whose name is a number
             DictV([name |-> StrV(<<"Zoo">>),
                    schema_object |->
                        DictV([address |->
                            DictV([addressCountry |-> DictV([name |-> IntV(5)])])])])
      [] id = "brace" ->   \* a string address with a dict representation at its end
             DictV([name |-> StrV(<<"Bar">>),
                    schema_object |->
                        DictV([address |->
                            StrV(<<"123 Elm", ",", " ", "{", "nested:junk}">>)])])
      [] id = "brace_nosep" ->  \* the same without the comma
             DictV([name |-> StrV(<<"Pub">>),
                    schema_object |->
                        DictV([address |-> StrV(<<"123 Elm", " ", "{", "nested:junk}">>)])])
      [] id = "number" ->  \* a number as address
             DictV([name |-> StrV(<<"Five">>),
                    schema_object |-> DictV([address |-> IntV(5)])])
      [] id = "zero" ->    \* the number 0 as address
             DictV([name |-> StrV(<<"Nil">>),
                    schema_object |-> DictV([address |-> IntV(0)])])
      [] id = "list" ->    \* a list as address
             DictV([name |-> StrV(<<"Mall">>),
                    schema_object |-> DictV([address |-> ListV(<<StrV(MainSt)>>)])])
      [] id = "empty_then_location" ->  \* an empty address and a location
             DictV([name |-> StrV(<<"Forum">>),
                    schema_object |->
                        DictV([address |-> StrV(<<>>), location |-> StrV(<<"Rome">>)])])
      [] id = "location" ->  \* only a location
             DictV([name |-> StrV(<<"Arena">>),
                    schema_object |-> DictV([location |-> StrV(<<"Rome">>)])])
      [] id = "both" ->    \* an address and a location
             DictV([name |-> StrV(<<"Hotel">>),
                    schema_object |->
                        DictV([address |-> StrV(MainSt), location |-> StrV(<<"Rome">>)])])
      [] id = "street_postal" ->  \* streetAddress and postalAddress fields
             DictV([name |-> StrV(<<"Depot">>),
                    schema_object |->
                        DictV([streetAddress |-> StrV(<<"2 Oak Ave">>),
                               postalAddress |-> StrV(<<"PO Box 1">>)])])
      [] id = "country_str" ->  \* a structured address with a plain country
             DictV([name |-> StrV(<<"Embassy">>),
                    schema_object |->
                        DictV([address |-> DictV([addressCountry |-> StrV(<<"USA">>)])])])
      [] id = "country_brace" ->  \* a country string that starts with "{"
             DictV([name |-> StrV(<<"Consulate">>),
                    schema_object |->
                        DictV([address |->
                            DictV([addressLocality |-> StrV(<<"Springfield">>),
                                   addressCountry  |-> StrV(<<"{", "name:USA}">>)])])])
      [] id = "nested_part" ->  \* a part that is a dict
             DictV([name |-> StrV(<<"Tower">>),
                    schema_object |->
                        DictV([address |->
                            DictV([streetAddress   |-> DictV([value |-> StrV(MainSt)]),
                                   addressLocality |-> StrV(<<"Springfield">>)])])])
      [] id = "list_part" ->  \* a part that is a list
             DictV([name |-> StrV(<<"Plaza">>),
                    schema_object |->
                        DictV([address |->
                            DictV([streetAddress   |-> ListV(<<StrV(MainSt)>>),
                                   addressLocality |-> StrV(<<"Springfield">>)])])])
      [] id = "region_postal" ->  \* region and a numeric postal code
             DictV([name |-> StrV(<<"Depot 2">>),
                    schema_object |->
                        DictV([address |->
                            DictV([postalCode    |-> IntV(62701),
                                   addressRegion |-> StrV(<<"IL">>)])])])
      [] id = "empty_struct" ->  \* a structured address with none of the fields
             DictV([name |-> StrV(<<"Void">>),
                    schema_object |->
                        DictV([address |-> DictV([geo |-> StrV(<<"0,0">>)])])])
      [] id = "noname" ->  \* no name
             DictV([schema_object |-> DictV([address |-> StrV(MainSt)])])
      [] id = "emptyname" ->  \* an empty name
             DictV([name |-> StrV(<<>>),
                    schema_object |-> DictV([address |-> StrV(MainSt)])])
      [] id = "str_schema" ->  \* a schema_object that is a string
             DictV([name |-> StrV(<<"Blob">>),
                    schema_object |-> StrV(<<"{", "address: 1 Main St}">>)])
      [] id = "int_result" ->  \* a result that is no record
             IntV(7)

\* The results a pass is started with.
PassResults == {"cafe", "inn", "doc", "page", "zoo"}

\* The longest ranked list a pass is started with.
MaxResults == 4

SeqsUpTo(S, n) == UNION {[1..k -> S] : k \in 0..n}

(***************************************************************************)
(* check_and_send_map_message: the scan and the quorum.                    *)
(***************************************************************************)
\* Lines 42-95: the loop; the first iteration that raises ends it.
RECURSIVE ScanFrom(_, _, _)
ScanFrom(results, i, results_with_addresses) ==
    IF i > Len(results)
    THEN [raised |-> FALSE, locations |-> results_with_addresses]
    ELSE LET r == ScanResult(Result(results[i]))
         IN  IF r.st = "raise"
             THEN [raised |-> TRUE, locations |-> <<>>]
             ELSE ScanFrom(results, i + 1, results_with_addresses \o r.loc)

Scan(results) == ScanFrom(results, 1, <<>>)

\* Line 103: results_with_addr_count >= total_results / 2 (true division)
\* and results_with_addr_count > 0.
Quorum(results_with_addr_count, total_results) ==
    /\ 2 * results_with_addr_count >= total_results
    /\ results_with_addr_count > 0

\* Lines 105-109.
MapMessage(locations) ==
    [message_type |-> "results_map", type |-> "LocationMap", locations |-> locations]

(***************************************************************************)
(* The handler and one pass over it.                                       *)
(***************************************************************************)
VARIABLES
    connection_alive,      \* handler.connection_alive_event.is_set()
    generate_mode,         \* handler.generate_mode
    final_ranked_answers,  \* handler.final_ranked_answers
    messages,              \* handler.messages, the transcript
    summary,               \* handler.summary
    query_done,            \* handler.query_done
    pc,                    \* where PostRanking.do / SummarizeResults.do stands
    response,              \* SummarizeResults.do's local `response`
    map_task,              \* the task made by asyncio.create_task
    map_message,           \* the message that task's send_message was given
    outbox,                \* the send_message calls that have started, in order
    log,                   \* what the pass has done so far, in order
    error,                 \* the exception that left PostRanking.do, if any
    results0,              \* final_ranked_answers when the pass started
    messages0,             \* messages when the pass started
    cse_pc,                \* where the current call of the search client stands
    caller,                \* the client method that was called
    query,                 \* search's `query` (search_by_url's `url`)
    num_results,           \* search's `num_results`
    params,                \* the request parameters search built
    http,                  \* how the GET and the reading of its body ended
    data,                  \* search's local `data`
    search_out,            \* how search ended: its return value or exception
    by_url_out             \* how search_by_url ended

passVars == <<connection_alive, generate_mode, final_ranked_answers, messages,
              summary, query_done, pc, response, map_task, map_message, outbox, log,
              error, results0, messages0>>

cseVars == <<cse_pc, caller, query, num_results, params, http, data, search_out,
             by_url_out>>

vars == <<passVars, cseVars>>

handlerVars == <<connection_alive, generate_mode, final_ranked_answers, messages,
                 summary, query_done>>

Unset == [t |-> "unset", v |-> <<>>]

Modes == {"none", "summarize", "generate"}

ConversationId == "conv-1"

\* Message(sender_type=..., message_type=..., content=..., conversation_id=...)
Message(sender_type, message_type, content, conversation_id) ==
    [sender_type     |-> sender_type,
     message_type    |-> message_type,
     content         |-> content,
     conversation_id |-> conversation_id]

\* An entry the transcript may hold before the pass.
UserMessage ==
    Message("user", "query",
            <<("@type" :> "Query") @@ ("content" :> StrV(<<"where to eat">>))>>,
            ConversationId)

Transcripts == {<<>>, <<UserMessage>>}

\* What run_prompt may return: nothing, an empty mapping, a mapping with a
\* summary (possibly the empty text), a mapping without one.
Responses ==
    {None,
     DictV(EmptyDict),
     DictV([summary |-> StrV(<<"Top picks">>)]),
     DictV([summary |-> StrV(<<>>)]),
     DictV([answer |-> StrV(<<"42">>)])}

\* The positions at which the pass is suspended in an await of an external
\* capability, and those at which it has ended.
Suspended == {"await_prompt", "await_send", "await_signal"}

Ended == {"aborted", "done", "stopped", "completed", "failed"}

Count(e) == Cardinality({i \in 1..Len(log) : log[i] = e})

\* How a call ended: with a return value, with an exception, or not yet.
Returned(val) == [st |-> "return", val |-> val, exc |-> "none"]

Raised(exc) == [st |-> "raise", val |-> None, exc |-> exc]

NoOutcome == [st |-> "none", val |-> None, exc |-> "none"]

\* The search client before any call.
CseIdle ==
    /\ cse_pc = "idle"
    /\ caller = "none"
    /\ query = <<>>
    /\ num_results = 0
    /\ params = EmptyDict
    /\ http = "none"
    /\ data = "unset"
    /\ search_out = NoOutcome
    /\ by_url_out = NoOutcome

Init ==
    /\ connection_alive \in BOOLEAN
    /\ generate_mode \in Modes
    /\ final_ranked_answers \in SeqsUpTo(PassResults, MaxResults)
    /\ messages \in Transcripts
    /\ summary = Unset
    /\ query_done = FALSE
    /\ pc = "start"
    /\ response = Unset
    /\ map_task = "none"
    /\ map_message = <<>>
    /\ outbox = <<>>
    /\ log = <<>>
    /\ error = "none"
    /\ results0 = final_ranked_answers
    /\ messages0 = messages
    /\ CseIdle

\* Variant of DoEntry without the `return` at line 19: a dead connection
\* sets query_done and the pass goes on.
DoEntry_NoReturn ==
    /\ pc = "start"
    /\ query_done' = IF ~connection_alive THEN TRUE ELSE query_done
    /\ pc' = "classify"
    /\ UNCHANGED <<connection_alive, generate_mode, final_ranked_answers, messages,
                   summary, response, map_task, map_message, outbox, log, error,
                   results0, messages0>>
    /\ UNCHANGED cseVars

\* PostRanking.do, lines 17-19: the liveness check.
DoEntry ==
    /\ pc = "start"
    /\ IF ~connection_alive
       THEN /\ query_done' = TRUE
            /\ pc' = "aborted"
       ELSE /\ pc' = "classify"
            /\ UNCHANGED query_done
    /\ UNCHANGED <<connection_alive, generate_mode, final_ranked_answers, messages,
                   summary, response, map_task, map_message, outbox, log, error,
                   results0, messages0>>
    /\ UNCHANGED cseVars

\* Variant of OnClassifyError without the outer try/except: the exception
\* leaves check_and_send_map_message and PostRanking.do.
OnClassifyError_Propagates == "failed"

\* Lines 122-125: where the pass stands after an exception inside
\* check_and_send_map_message: it is logged and swallowed.
OnClassifyError == "dispatch"

\* Lines 117-118: where the pass stands after create_task raised.
OnScheduleError == "dispatch"

\* Variant of CheckAndSendMapMessage with create_task inside the loop: one
\* task per result with an address.
CheckAndSendMapMessage_TaskPerLocation ==
    /\ pc = "classify"
    /\ LET results == final_ranked_answers
           scan    == Scan(results)
       IN  IF Len(results) = 0 \/ scan.raised
              \/ ~Quorum(Len(scan.locations), Len(results))
           THEN /\ log' = log \o <<"classify">>
                /\ UNCHANGED <<map_task, map_message>>
           ELSE /\ map_task' = "scheduled"
                /\ map_message' = [i \in 1..Len(scan.locations) |->
                                       MapMessage(<<scan.locations[i]>>)]
                /\ log' = log \o <<"classify">>
                              \o [i \in 1..Len(scan.locations) |-> "map_scheduled"]
    /\ pc' = "dispatch"
    /\ UNCHANGED <<handlerVars, response, outbox, error, results0, messages0>>
    /\ UNCHANGED cseVars

\* Variant of CheckAndSendMapMessage with `await send_message(map_message)` in
\* place of create_task: the delivery is over (or has failed and been logged)
\* when the coroutine returns.
CheckAndSendMapMessage_Awaited ==
    /\ pc = "classify"
    /\ LET results == final_ranked_answers
           scan    == Scan(results)
       IN  IF Len(results) = 0 \/ scan.raised
              \/ ~Quorum(Len(scan.locations), Len(results))
           THEN /\ log' = log \o <<"classify">>
                /\ UNCHANGED <<map_task, map_message, outbox>>
           ELSE /\ map_task' \in {"delivered", "failed"}
                /\ map_message' = <<MapMessage(scan.locations)>>
                /\ outbox' = Append(outbox, [kind |-> "results_map",
                                             of |-> MapMessage(scan.locations)])
                /\ log' = log \o <<"classify", "map_scheduled">>
    /\ pc' = "dispatch"
    /\ UNCHANGED <<handlerVars, response, error, results0, messages0>>
    /\ UNCHANGED cseVars

\* PostRanking.do line 22, check_and_send_map_message lines 32-125.  The
\* coroutine has no await of its own, so it runs in one step.  create_task
\* either makes the task or raises.
CheckAndSendMapMessage ==
    /\ pc = "classify"
    /\ LET results == final_ranked_answers
           scan    == Scan(results)
       IN  IF Len(results) = 0
           THEN /\ pc' = "dispatch"
                /\ log' = log \o <<"classify">>
                /\ UNCHANGED <<map_task, map_message>>
           ELSE IF scan.raised
           THEN /\ pc' = OnClassifyError
                /\ log' = log \o <<"classify", "classify_error">>
                /\ UNCHANGED <<map_task, map_message>>
           ELSE IF Quorum(Len(scan.locations), Len(results))
           THEN \/ /\ map_task' = "scheduled"
                   /\ map_message' = <<MapMessage(scan.locations)>>
                   /\ log' = log \o <<"classify", "map_scheduled">>
                   /\ pc' = "dispatch"
                \/ /\ log' = log \o <<"classify", "schedule_error">>
                   /\ pc' = OnScheduleError
                   /\ UNCHANGED <<map_task, map_message>>
           ELSE /\ pc' = "dispatch"
                /\ log' = log \o <<"classify">>
                /\ UNCHANGED <<map_task, map_message>>
    /\ error' = IF pc' = "failed" THEN "TypeError" ELSE error
    /\ UNCHANGED <<handlerVars, response, outbox, results0, messages0>>
    /\ UNCHANGED cseVars

\* Variant of ModeTarget that signals completion on the no-op path.
ModeTarget_SignalOnNone(mode) ==
    IF mode = "none" THEN "signal"
    ELSE IF mode = "summarize" THEN "summarize"
    ELSE "done"

\* Variant of ModeTarget with a plain `else` for the summarize branch.
ModeTarget_ElseSummarize(mode) ==
    IF mode = "none" THEN "done" ELSE "summarize"

\* Lines 24-30: the position the mode sends the pass to.
ModeTarget(mode) ==
    IF mode = "none" THEN "done"
    ELSE IF mode = "summarize" THEN "summarize"
    ELSE "done"

\* PostRanking.do, lines 24-30.
Dispatch ==
    /\ pc = "dispatch"
    /\ pc' = ModeTarget(generate_mode)
    /\ UNCHANGED <<handlerVars, response, map_task, map_message, outbox, log, error,
                   results0, messages0>>
    /\ UNCHANGED cseVars

(***************************************************************************)
(* SummarizeResults.do                                                     *)
(***************************************************************************)
\* Variant of Top3 that keeps two entries.
Top3_KeepsTwo(answers) == SubSeq(answers, 1, IF Len(answers) < 2 THEN Len(answers) ELSE 2)

\* Line 137: answers[:3]
Top3(answers) == SubSeq(answers, 1, IF Len(answers) < 3 THEN Len(answers) ELSE 3)

\* Line 137: the stored list is replaced by its first three entries.
Truncate ==
    /\ pc = "summarize"
    /\ final_ranked_answers' = Top3(final_ranked_answers)
    /\ log' = log \o <<"truncate">>
    /\ pc' = "run_prompt"
    /\ UNCHANGED <<connection_alive, generate_mode, messages, summary, query_done,
                   response, map_task, map_message, outbox, error, results0,
                   messages0>>
    /\ UNCHANGED cseVars

\* Line 138: run_prompt is called and the pass waits for it.
RunPrompt ==
    /\ pc = "run_prompt"
    /\ log' = log \o <<"prompt_call">>
    /\ pc' = "await_prompt"
    /\ UNCHANGED <<handlerVars, response, map_task, map_message, outbox, error,
                   results0, messages0>>
    /\ UNCHANGED cseVars

\* Variant of NoResponse that tests `response is None`.
NoResponse_NoneOnly(r) == r.t = "none"

\* Lines 139-141: whether `not response` stops the pass.
NoResponse(r) == ~Truthy(r)

\* Lines 138-142: run_prompt returns (or raises); a falsy response stops the
\* pass, response["summary"] raises KeyError when the key is missing.
PromptReturns ==
    /\ pc = "await_prompt"
    /\ \/ \E r \in Responses :
             /\ response' = r
             /\ IF NoResponse(r)
                THEN /\ pc' = "stopped"
                     /\ log' = log \o <<"prompt_null">>
                     /\ UNCHANGED <<summary, error>>
                ELSE IF "summary" \notin DOMAIN r.v
                THEN /\ pc' = "failed"
                     /\ error' = "KeyError"
                     /\ log' = log \o <<"prompt_return">>
                     /\ UNCHANGED summary
                ELSE /\ summary' = r.v["summary"]
                     /\ pc' = "append"
                     /\ log' = log \o <<"prompt_return">>
                     /\ UNCHANGED error
       \/ /\ pc' = "failed"
          /\ error' = "PromptError"
          /\ log' = log \o <<"prompt_error">>
          /\ UNCHANGED <<summary, response>>
    /\ UNCHANGED <<connection_alive, generate_mode, final_ranked_answers, messages,
                   query_done, map_task, map_message, outbox, results0, messages0>>
    /\ UNCHANGED cseVars

\* Lines 145-151: the summary message built from handler.summary.
SummaryMessage(text) ==
    Message("assistant", "result",
            <<("@type" :> "Summary") @@ ("content" :> text)>>,
            ConversationId)

\* Variant of AppendSummary that replaces the transcript by the new message.
AppendSummary_Replace ==
    /\ pc = "append"
    /\ messages' = <<SummaryMessage(summary)>>
    /\ log' = log \o <<"append">>
    /\ pc' = "send"
    /\ UNCHANGED <<connection_alive, generate_mode, final_ranked_answers, summary,
                   query_done, response, map_task, map_message, outbox, error,
                   results0, messages0>>
    /\ UNCHANGED cseVars

\* Lines 145-153: the message is built and appended to handler.messages.
AppendSummary ==
    /\ pc = "append"
    /\ messages' = Append(messages, SummaryMessage(summary))
    /\ log' = log \o <<"append">>
    /\ pc' = "send"
    /\ UNCHANGED <<connection_alive, generate_mode, final_ranked_answers, summary,
                   query_done, response, map_task, map_message, outbox, error,
                   results0, messages0>>
    /\ UNCHANGED cseVars

\* Variant of SendSummary that does not await the send: the pass goes on to
\* the completion signal at once.
SendSummary_NoAwait ==
    /\ pc = "send"
    /\ outbox' = Append(outbox, [kind |-> "summary", of |-> SummaryMessage(summary)])
    /\ log' = log \o <<"send_call">>
    /\ pc' = "signal"
    /\ UNCHANGED <<handlerVars, response, map_task, map_message, error, results0,
                   messages0>>
    /\ UNCHANGED cseVars

\* Line 156: send_message(summary_msg.to_dict()) is called and awaited.
SendSummary ==
    /\ pc = "send"
    /\ outbox' = Append(outbox, [kind |-> "summary", of |-> SummaryMessage(summary)])
    /\ log' = log \o <<"send_call">>
    /\ pc' = "await_send"
    /\ UNCHANGED <<handlerVars, response, map_task, map_message, error, results0,
                   messages0>>
    /\ UNCHANGED cseVars

\* Variant of SendReturns with the send inside a try/except that logs the
\* failure, as the map send is: the pass goes on to the completion signal.
SendReturns_Swallows ==
    /\ pc = "await_send"
    /\ pc' = "signal"
    /\ \/ log' = log \o <<"send_done">>
       \/ log' = log \o <<"send_error">>
    /\ UNCHANGED <<handlerVars, response, map_task, map_message, outbox, error,
                   results0, messages0>>
    /\ UNCHANGED cseVars

\* Line 156: the awaited send returns, or raises and the exception leaves do.
SendReturns ==
    /\ pc = "await_send"
    /\ \/ /\ pc' = "signal"
          /\ log' = log \o <<"send_done">>
          /\ UNCHANGED error
       \/ /\ pc' = "failed"
          /\ error' = "SendError"
          /\ log' = log \o <<"send_error">>
    /\ UNCHANGED <<handlerVars, response, map_task, map_message, outbox, results0,
                   messages0>>
    /\ UNCHANGED cseVars

\* Line 158: precheck_step_done("post_ranking") is called and awaited.
SignalStepDone ==
    /\ pc = "signal"
    /\ log' = log \o <<"signal">>
    /\ pc' = "await_signal"
    /\ UNCHANGED <<handlerVars, response, map_task, map_message, outbox, error,
                   results0, messages0>>
    /\ UNCHANGED cseVars

\* Line 158: the awaited signal returns, or raises and the exception leaves do.
SignalReturns ==
    /\ pc = "await_signal"
    /\ \/ /\ pc' = "completed"
          /\ UNCHANGED error
       \/ /\ pc' = "failed"
          /\ error' = "SignalError"
    /\ UNCHANGED <<handlerVars, response, map_task, map_message, outbox, log,
                   results0, messages0>>
    /\ UNCHANGED cseVars

(***************************************************************************)
(* The task made at line 115.  It runs only while the pass is suspended or *)
(* after it has ended.                                                     *)
(***************************************************************************)
\* Variant of MapTaskStarts in which the locations are computed when the
\* task runs, from the list the handler holds then.
MapTaskStarts_LateLocations ==
    /\ map_task = "scheduled"
    /\ pc \in Suspended \cup Ended
    /\ map_task' = "running"
    /\ outbox' = Append(outbox,
                        [kind |-> "results_map",
                         of   |-> MapMessage(Scan(final_ranked_answers).locations)])
    /\ UNCHANGED <<handlerVars, pc, response, map_message, log, error, results0,
                   messages0>>
    /\ UNCHANGED cseVars

\* Line 115: the task starts: send_message(map_message) begins with the
\* message built at lines 105-109.
MapTaskStarts ==
    /\ map_task = "scheduled"
    /\ pc \in Suspended \cup Ended
    /\ map_task' = "running"
    /\ outbox' = Append(outbox, [kind |-> "results_map", of |-> map_message[1]])
    /\ UNCHANGED <<handlerVars, pc, response, map_message, log, error, results0,
                   messages0>>
    /\ UNCHANGED cseVars

\* Line 115: the task ends, delivered or failed; nobody awaits its result.
MapTaskEnds ==
    /\ map_task = "running"
    /\ pc \in Suspended \cup Ended
    /\ map_task' \in {"delivered", "failed"}
    /\ UNCHANGED <<handlerVars, pc, response, map_message, outbox, log, error,
                   results0, messages0>>
    /\ UNCHANGED cseVars

Next ==
    \/ DoEntry
    \/ CheckAndSendMapMessage
    \/ Dispatch
    \/ Truncate
    \/ RunPrompt
    \/ PromptReturns
    \/ AppendSummary
    \/ SendSummary
    \/ SendReturns
    \/ SignalStepDone
    \/ SignalReturns
    \/ MapTaskStarts
    \/ MapTaskEnds

Spec == Init /\ [][Next]_vars

(***************************************************************************)
(* The classification alone, over every shape of result: a live pass in    *)
(* mode "none" over a short list.                                          *)
(***************************************************************************)
MapResults ==
    PassResults \cup
    {"brace", "brace_nosep", "number", "zero", "list", "empty_then_location",
     "location", "both", "street_postal", "country_str", "country_brace",
     "nested_part", "list_part", "region_postal", "empty_struct", "noname",
     "emptyname", "str_schema", "int_result"}

\* The longest ranked list the classification is run on.
MaxMapResults == 2

InitMap ==
    /\ connection_alive = TRUE
    /\ generate_mode = "none"
    /\ final_ranked_answers \in SeqsUpTo(MapResults, MaxMapResults)
    /\ messages = <<>>
    /\ summary = Unset
    /\ query_done = FALSE
    /\ pc = "start"
    /\ response = Unset
    /\ map_task = "none"
    /\ map_message = <<>>
    /\ outbox = <<>>
    /\ log = <<>>
    /\ error = "none"
    /\ results0 = final_ranked_answers
    /\ messages0 = messages
    /\ CseIdle

NextMap ==
    \/ DoEntry
    \/ CheckAndSendMapMessage
    \/ Dispatch
    \/ MapTaskStarts
    \/ MapTaskEnds

SpecMap == InitMap /\ [][NextMap]_vars

(***************************************************************************)
(* retrieval_providers/google_custom_search_engine_client.py               *)
(*                                                                         *)
(* GoogleCustomSearchClient.search has one await, the GET.  A call is two  *)
(* steps: up to the GET, and from the end of the GET to the return of the  *)
(* method that was called.                                                 *)
(***************************************************************************)
ApiKey == StrV(<<"key-1">>)

Cx == StrV(<<"cx-1">>)

\* search's default for num_results (line 54).
DefaultNumResults == 10

\* The most results the API gives per request (line 63).
NumCap == 10

\* The largest num_results a caller passes explicitly.
MaxNum == 2

Max(a, b) == IF a >= b THEN a ELSE b

Min(a, b) == IF a <= b THEN a ELSE b

\* xs[:n]
SliceTo(xs, n) ==
    IF n >= 0 THEN SubSeq(xs, 1, Min(n, Len(xs)))
    ELSE SubSeq(xs, 1, Max(Len(xs) + n, 0))

\* s.rstrip("/")
RECURSIVE RStrip(_)
RStrip(s) ==
    IF Len(s) > 0 /\ s[Len(s)] = "/" THEN RStrip(SubSeq(s, 1, Len(s) - 1)) ELSE s

\* urlparse(url).netloc of a str: what follows "//", after a scheme if there
\* is one, up to the next "/", "?" or "#".
Schemes == {"https:", "http:"}

Netloc(s) ==
    LET from == IF Len(s) >= 2 /\ s[1] = "/" /\ s[2] = "/" THEN 3
                ELSE IF Len(s) >= 3 /\ s[1] \in Schemes /\ s[2] = "/" /\ s[3] = "/"
                     THEN 4
                ELSE 0
        stops == {i \in 1..Len(s) : i >= from /\ s[i] \in {"/", "?", "#"}}
        to    == IF stops = {} THEN Len(s)
                 ELSE (CHOOSE i \in stops : \A j \in stops : i <= j) - 1
    IN  IF from = 0 THEN <<>> ELSE SubSeq(s, from, to)

\* _extract_domain_from_url: a url that is no str has no netloc, or makes
\* urlparse raise, and both give "unknown".
ExtractDomainFromUrl(url) ==
    IF url.t # "str" THEN StrV(<<"unknown">>)
    ELSE LET netloc == Netloc(url.v)
             domain == IF Len(netloc) > 0 THEN netloc ELSE <<"unknown">>
         IN  IF domain[1] = "www." THEN StrV(Tail(domain)) ELSE StrV(domain)

\* json.dumps of a scalar, and of the schema object of lines 98-104.
JsonScalar(x) ==
    CASE x.t = "str"  -> <<"\"">> \o x.v \o <<"\"">>
      [] x.t = "int"  -> Str(x)
      [] x.t = "none" -> <<"null">>
      [] OTHER        -> <<"...">>

JsonDumps(title, snippet, link, displayLink) ==
    StrV(<<"{", "\"@type\"", ":", " ", "\"WebPage\"", ",", " ">>
         \o <<"\"name\"", ":", " ">> \o JsonScalar(title) \o <<",", " ">>
         \o <<"\"description\"", ":", " ">> \o JsonScalar(snippet) \o <<",", " ">>
         \o <<"\"url\"", ":", " ">> \o JsonScalar(link) \o <<",", " ">>
         \o <<"\"displayLink\"", ":", " ">> \o JsonScalar(displayLink) \o <<"}">>)

\* Lines 93-107: the row of one item.
Row(it) ==
    IF it.t # "dict" THEN Raised("AttributeError")
    ELSE LET link    == GetOr(it.v, "link", StrV(<<>>))
             title   == GetOr(it.v, "title", StrV(<<>>))
             snippet == GetOr(it.v, "snippet", StrV(<<>>))
             site_domain == ExtractDomainFromUrl(link)
             json_str == JsonDumps(title, snippet, link, Get(it.v, "displayLink"))
         IN  Returned(ListV(<<link, json_str, title, site_domain>>))

\* Lines 92-107: the loop over the items, with the rows appended so far.
RECURSIVE Rows(_, _)
Rows(items, results) ==
    IF Len(items) = 0 THEN Returned(ListV(results))
    ELSE LET row == Row(items[1])
         IN  IF row.st = "raise" THEN row
             ELSE Rows(Tail(items), Append(results, row.val))

\* Lines 89-110: what search does with the decoded body.
ReadItems(body, n) ==
    IF body.t # "dict" THEN Raised("AttributeError")
    ELSE LET items == GetOr(body.v, "items", ListV(<<>>))
         IN  CASE items.t \in {"none", "int"} -> Raised("TypeError")
               [] items.t = "dict"            -> Raised("TypeError")
               [] items.t = "str"             ->
                    IF Len(SliceTo(items.v, n)) = 0 THEN Returned(ListV(<<>>))
                    ELSE Raised("AttributeError")
               [] items.t = "list"            -> Rows(SliceTo(items.v, n), <<>>)

\* Lines 68-70: the query with the site restriction.
SiteQuery(q, site) ==
    IF Truthy(site) /\ site.t = "str" /\ site.v # <<"all">>
    THEN StrV(q \o <<" ", "site:">> \o site.v)
    ELSE StrV(q)

\* Lines 59-75: the request parameters.
SearchParams(q, site, n, query_params) ==
    LET base == [key |-> ApiKey, cx |-> Cx, q |-> SiteQuery(q, site),
                 num |-> IntV(Max(1, Min(n, NumCap)))]
    IN  IF query_params.t # "dict" THEN base
        ELSE [k \in DOMAIN base \cup DOMAIN query_params.v |->
                 IF k \in DOMAIN query_params.v THEN query_params.v[k] ELSE base[k]]

\* Lines 122-127: what search_by_url makes of what search gave it.
MatchUrl(out, url) ==
    IF out.st = "raise" THEN out
    ELSE IF ~Truthy(out.val) THEN Returned(None)
    ELSE LET first == out.val.v[1]
             link  == first.v[1]
         IN  IF link.t # "str" THEN Raised("AttributeError")
             ELSE IF RStrip(link.v) = RStrip(url) THEN Returned(first)
             ELSE Returned(None)

\* The inputs of a call.
UrlA == <<"https:", "/", "/", "www.", "a.com", "/", "p">>

UrlB == <<"https:", "/", "/", "b.org">>

Queries == {<<"pizza">>}

Urls == {UrlA, UrlA \o <<"/">>, UrlB, <<>>}

Sites == {StrV(<<"all">>), StrV(<<"a.com">>), StrV(<<>>), ListV(<<StrV(<<"a.com">>)>>)}

NumResults == (-1..MaxNum) \cup {DefaultNumResults}

QueryParams == {DictV(EmptyDict), DictV([num |-> IntV(5)]), None}

\* How the GET can end inside the try of lines 77-81: with an exception of
\* httpx's HTTPError family (no connection, the 30 s timeout, an error
\* status from raise_for_status), or with another exception (a url httpx
\* rejects, a body that is no JSON).
HTTPErrors == {"ConnectError", "TimeoutException", "HTTPStatusError"}

OtherExceptions == {"InvalidURL", "JSONDecodeError"}

\* The items a body may hold.
ItemA ==
    DictV([link |-> StrV(UrlA \o <<"/">>), title |-> StrV(<<"A">>),
           snippet |-> StrV(<<"about a">>), displayLink |-> StrV(<<"www.", "a.com">>)])

ItemB ==
    DictV([link |-> StrV(UrlB), title |-> StrV(<<"B">>), snippet |-> StrV(<<"about b">>)])

\* The decoded JSON bodies of a 2xx response.
Bodies ==
    {"no_items", "empty_items", "one", "two", "three", "relative_link", "bare_item",
     "null_items", "number_items", "mapping_items", "text_items", "top_list",
     "top_null", "item_text", "item_null", "link_number", "link_null"}

Body(id) ==
    CASE id = "no_items"      -> DictV([kind |-> StrV(<<"customsearch#search">>)])
      [] id = "empty_items"   -> DictV([items |-> ListV(<<>>)])
      [] id = "one"           -> DictV([items |-> ListV(<<ItemA>>)])
      [] id = "two"           -> DictV([items |-> ListV(<<ItemB, ItemA>>)])
      [] id = "three"         -> DictV([items |-> ListV(<<ItemA, ItemB, ItemA>>)])
      [] id = "relative_link" ->
           DictV([items |-> ListV(<<DictV([link |-> StrV(<<"a.com", "/", "p">>)])>>)])
      [] id = "bare_item"     -> DictV([items |-> ListV(<<DictV(EmptyDict)>>)])
      [] id = "null_items"    -> DictV([items |-> None])
      [] id = "number_items"  -> DictV([items |-> IntV(0)])
      [] id = "mapping_items" -> DictV([items |-> DictV([a |-> IntV(1)])])
      [] id = "text_items"    -> DictV([items |-> StrV(<<"a", "b">>)])
      [] id = "top_list"      -> ListV(<<>>)
      [] id = "top_null"      -> None
      [] id = "item_text"     -> DictV([items |-> ListV(<<ItemA, StrV(<<"x">>)>>)])
      [] id = "item_null"     -> DictV([items |-> ListV(<<None>>)])
      [] id = "link_number"   -> DictV([items |-> ListV(<<DictV([link |-> IntV(5)])>>)])
      [] id = "link_null"     -> DictV([items |-> ListV(<<DictV([link |-> None])>>)])

\* The bodies of the documented shape: an object whose items, if any, are a
\* list of objects with text links.
WellFormed == {"no_items", "empty_items", "one", "two", "three", "relative_link",
               "bare_item"}

\* Lines 59-79: a call up to the GET.
StartSearch(who, q, site, n, query_params) ==
    /\ cse_pc # "get"
    /\ cse_pc' = "get"
    /\ caller' = who
    /\ query' = q
    /\ num_results' = n
    /\ params' = SearchParams(q, site, n, query_params)
    /\ http' = "pending"
    /\ data' = "unset"
    /\ search_out' = NoOutcome
    /\ by_url_out' = NoOutcome
    /\ UNCHANGED passVars

Search(q, site, n, query_params) == StartSearch("search", q, site, n, query_params)

\* Line 114.
SearchAllSites(q, n, query_params) ==
    StartSearch("search_all_sites", q, StrV(<<"all">>), n, query_params)

\* Line 121.
SearchByUrl(url, query_params) ==
    StartSearch("search_by_url", url, StrV(<<"all">>), 1, query_params)

\* search returns or raises `out`, and its caller goes on from line 121.
SearchEnds(out) ==
    /\ search_out' = out
    /\ by_url_out' = IF caller = "search_by_url" THEN MatchUrl(out, query) ELSE NoOutcome
    /\ cse_pc' = "done"
    /\ UNCHANGED <<caller, query, num_results, params, passVars>>

\* Lines 82-84.
GetRaisesHTTPError ==
    /\ cse_pc = "get"
    /\ http' \in HTTPErrors
    /\ UNCHANGED data
    /\ SearchEnds(Returned(ListV(<<>>)))

\* Lines 85-87.
GetRaisesException ==
    /\ cse_pc = "get"
    /\ http' \in OtherExceptions
    /\ UNCHANGED data
    /\ SearchEnds(Returned(ListV(<<>>)))

\* Lines 79-81 and 89-110: the body is decoded and read.
GetReturns ==
    /\ cse_pc = "get"
    /\ http' = "ok"
    /\ data' \in Bodies
    /\ SearchEnds(ReadItems(Body(data'), num_results))

InitSearch ==
    /\ connection_alive = TRUE
    /\ generate_mode = "none"
    /\ final_ranked_answers = <<>>
    /\ messages = <<>>
    /\ summary = Unset
    /\ query_done = FALSE
    /\ pc = "start"
    /\ response = Unset
    /\ map_task = "none"
    /\ map_message = <<>>
    /\ outbox = <<>>
    /\ log = <<>>
    /\ error = "none"
    /\ results0 = final_ranked_answers
    /\ messages0 = messages
    /\ CseIdle

NextSearch ==
    \/ \E q \in Queries, site \in Sites, n \in NumResults, query_params \in QueryParams :
          Search(q, site, n, query_params)
    \/ \E q \in Queries, n \in NumResults, query_params \in QueryParams :
          SearchAllSites(q, n, query_params)
    \/ \E url \in Urls, query_params \in QueryParams : SearchByUrl(url, query_params)
    \/ GetRaisesHTTPError
    \/ GetRaisesException
    \/ GetReturns

SpecSearch == InitSearch /\ [][NextSearch]_vars

(***************************************************************************)
(* Properties of one pass.                                                 *)
(***************************************************************************)
\* Whether event a occurs in the log, and whether every e is preceded by a b.
Occurs(e) == \E i \in 1..Len(log) : log[i] = e

Precedes(b, e) ==
    \A i \in 1..Len(log) : log[i] = e => \E j \in 1..(i - 1) : log[j] = b

\* The send_message calls for a message of the given kind that have started.
Sends(kind) == {i \in 1..Len(outbox) : outbox[i].kind = kind}

\* The first min(3, n) entries of the list the pass started with.
FirstThree == [i \in 1..(IF Len(results0) < 3 THEN Len(results0) ELSE 3) |-> results0[i]]

\* The results of the starting list that resolve to a non-absent address.
Addressed == {i \in 1..Len(results0) : ScanResult(Result(results0[i])).st = "add"}

\* The classification reached the emission of the map message (lines 105-115).
MapEmitted == Occurs("map_scheduled") \/ Occurs("schedule_error")

\* C1: over one pass precheck_step_done("post_ranking") is invoked exactly once
\* when the pass runs the summarize path to its last line, and not at all on
\* every other path (mode none, liveness abort, null response, a failure
\* before the last line); it is never invoked twice.
C1_SignalExactlyOnce ==
    /\ Count("signal") <= 1
    /\ (pc \in {"await_signal", "completed"} => Count("signal") = 1)
    /\ (pc \in {"start", "classify", "dispatch", "aborted", "done", "stopped"}
            => Count("signal") = 0)
    /\ (generate_mode # "summarize" \/ ~connection_alive => Count("signal") = 0)
    /\ (pc = "failed" /\ error # "SignalError" => Count("signal") = 0)

C1_Witness ==
    /\ pc = "completed"
    /\ Count("signal") = 1
    /\ Len(results0) > 3

\* C2: on the summarize path the summary message is appended to
\* handler.messages before send_message is called for it, and
\* precheck_step_done is invoked only after that send_message call has
\* completed.
C2_AppendSendSignalOrder ==
    /\ Precedes("append", "send_call")
    /\ Precedes("send_call", "send_done")
    /\ Precedes("send_done", "signal")
    /\ \A i \in Sends("summary") :
           /\ Len(messages) > 0
           /\ messages[Len(messages)] = outbox[i].of

C2_Witness ==
    /\ Occurs("signal")
    /\ Sends("summary") # {}
    /\ map_task = "delivered"

\* C3: when connection_alive_event is not set at the start, the pass sets
\* handler.query_done and does nothing else, whatever the mode and the results.
C3_DeadConnectionAborts ==
    ~connection_alive /\ pc # "start" =>
        /\ pc = "aborted"
        /\ query_done
        /\ log = <<>>
        /\ outbox = <<>>
        /\ map_task = "none"
        /\ map_message = <<>>
        /\ final_ranked_answers = results0
        /\ messages = messages0
        /\ summary = Unset
        /\ response = Unset
        /\ error = "none"

C3_Witness ==
    /\ pc = "aborted"
    /\ query_done
    /\ generate_mode = "summarize"
    /\ results0 = <<"cafe", "inn", "doc", "page">>

\* C4: when run_prompt returns None or an empty response, SummarizeResults.do
\* stops: handler.messages is unchanged, no summary message is sent,
\* handler.summary is not set, the completion signal is not invoked.
C4_NullResponseStops ==
    response # Unset /\ ~Truthy(response) =>
        /\ pc = "stopped"
        /\ messages = messages0
        /\ Sends("summary") = {}
        /\ ~Occurs("send_call")
        /\ summary = Unset
        /\ Count("signal") = 0
        /\ error = "none"

C4_Witness ==
    /\ pc = "stopped"
    /\ response = DictV(EmptyDict)
    /\ messages0 = <<UserMessage>>
    /\ Len(results0) > 3

\* C5: for every list of N results of which exactly k resolve to a non-absent
\* address, the results_map message is emitted iff k > 0 and 2*k >= N.
C5_QuorumIff ==
    Occurs("classify") =>
        (MapEmitted <=>
            /\ Cardinality(Addressed) > 0
            /\ 2 * Cardinality(Addressed) >= Len(results0))

\* The quorum rule as it holds of the code: whenever the scan of the list
\* runs to its end (no result raises), the map message is emitted iff k > 0
\* and 2*k >= N; when a result raises, no map message is emitted.
QuorumWhenScanCompletes ==
    Occurs("classify") =>
        IF \E i \in 1..Len(results0) : ScanResult(Result(results0[i])).st = "raise"
        THEN ~MapEmitted
        ELSE (MapEmitted <=>
                 /\ Cardinality(Addressed) > 0
                 /\ 2 * Cardinality(Addressed) >= Len(results0))

\* C6: in every pass, whatever the mode and the results, send_message is
\* scheduled with a results_map message at most once.
C6_MapAtMostOnce ==
    /\ Count("map_scheduled") <= 1
    /\ Cardinality(Sends("results_map")) <= 1
    /\ Len(map_message) <= 1

C6_Witness ==
    /\ Count("map_scheduled") = 1
    /\ Cardinality(Sends("results_map")) = 1
    /\ pc = "completed"

\* C7: on the summarize path, from the moment run_prompt is invoked
\* handler.final_ranked_answers equals the first min(3, n) entries of the list
\* that entered the pass, in the same order, and stays so afterwards, also
\* when the response is null.
C7_TruncatedBeforePrompt ==
    Occurs("prompt_call") => final_ranked_answers = FirstThree

C7_Witness ==
    /\ pc = "stopped"
    /\ response = None
    /\ results0 = <<"page", "cafe", "inn", "doc">>
    /\ final_ranked_answers = <<"page", "cafe", "inn">>

\* C8: check_and_send_map_message never raises to its caller, also when a
\* result record is malformed or scheduling the delivery fails: once it has
\* run, the pass stands at the mode dispatch or beyond it, a failure of the
\* pass can only come from the summarize steps, and a summarize pass that has
\* ended has invoked run_prompt.
C8_ClassifyNeverRaises ==
    /\ error # "TypeError"
    /\ (Occurs("classify") => pc \notin {"start", "classify", "aborted"})
    /\ (pc = "failed" => Occurs("prompt_call"))
    /\ (Occurs("classify") /\ generate_mode = "summarize" /\ pc \in Ended
            => Count("prompt_call") = 1)

C8_Witness ==
    /\ Occurs("classify_error")
    /\ generate_mode = "summarize"
    /\ pc = "completed"

\* C9: after a successful summarize pass handler.messages is the transcript
\* before the pass with exactly one message appended at the end; that message
\* has sender assistant, type result, and content[0] = {"@type": "Summary",
\* "content": s} with s the summary value run_prompt returned.
C9_TranscriptRoundTrip ==
    pc = "completed" =>
        /\ Len(messages) = Len(messages0) + 1
        /\ SubSeq(messages, 1, Len(messages0)) = messages0
        /\ LET m == messages[Len(messages)]
           IN  /\ m.sender_type = "assistant"
               /\ m.message_type = "result"
               /\ Len(m.content) = 1
               /\ m.content[1]["@type"] = "Summary"
               /\ m.content[1]["content"] = response.v["summary"]

C9_Witness ==
    /\ pc = "completed"
    /\ messages0 = <<UserMessage>>
    /\ response = DictV([summary |-> StrV(<<"Top picks">>)])
    /\ messages[2].content[1]["content"] = StrV(<<"Top picks">>)

\* C10: for every generate_mode other than "summarize", unrecognized values
\* included, a live pass ends as with mode "none": classification has run
\* once, run_prompt is not invoked, final_ranked_answers and handler.messages
\* are not modified, and no completion signal is sent.
C10_OtherModesAreNoOp ==
    connection_alive /\ generate_mode # "summarize" =>
        /\ pc \in {"start", "classify", "dispatch", "done"}
        /\ (pc \in {"dispatch", "done"} => Count("classify") = 1)
        /\ Count("prompt_call") = 0
        /\ final_ranked_answers = results0
        /\ messages = messages0
        /\ summary = Unset
        /\ Sends("summary") = {}
        /\ Count("signal") = 0

C10_Witness ==
    /\ generate_mode = "generate"
    /\ pc = "done"
    /\ Count("classify") = 1
    /\ Len(results0) > 3
    /\ messages0 = <<UserMessage>>

\* C11: the map delivery is a detached task.  check_and_send_map_message
\* returns with the task made and not yet run; the pass never waits for it;
\* and whatever the task has done so far (not started, running, delivered,
\* failed), the transcript append, the summary send and the completion signal
\* are what the pass's own steps make them.
C11_MapTaskDetached ==
    /\ (Occurs("map_scheduled") /\ pc \in {"dispatch", "summarize", "run_prompt"}
            => map_task = "scheduled" /\ Sends("results_map") = {})
    /\ (pc = "await_prompt" => ENABLED PromptReturns)
    /\ (pc = "await_send" => ENABLED SendReturns)
    /\ (pc = "await_signal" => ENABLED SignalReturns)
    /\ messages = (IF Occurs("append")
                   THEN Append(messages0, SummaryMessage(summary))
                   ELSE messages0)
    /\ Cardinality(Sends("summary")) = Count("send_call")
    /\ final_ranked_answers = (IF Occurs("truncate") THEN FirstThree ELSE results0)
    /\ error \in {"none", "KeyError", "PromptError", "SendError", "SignalError"}
    /\ (pc = "completed" =>
            /\ Count("append") = 1
            /\ Count("send_call") = 1
            /\ Count("send_done") = 1
            /\ Count("signal") = 1)

C11_Witness ==
    /\ pc = "completed"
    /\ map_task = "failed"
    /\ Len(outbox) = 2
    /\ outbox[1].kind = "results_map"
    /\ outbox[2].kind = "summary"
    /\ Count("signal") = 1

\* C19: if the awaited delivery of the summary message fails, the failure
\* leaves SummarizeResults.do and PostRanking.do, the completion signal is
\* not invoked, and the pass is left half-done: handler.messages holds the
\* appended summary message, handler.summary is set and final_ranked_answers
\* is truncated.
C19_SendFailureHalfDone ==
    Occurs("send_error") =>
        /\ pc = "failed"
        /\ error = "SendError"
        /\ Count("signal") = 0
        /\ Len(messages) = Len(messages0) + 1
        /\ SubSeq(messages, 1, Len(messages0)) = messages0
        /\ messages[Len(messages)].content[1]["content"] = response.v["summary"]
        /\ summary = response.v["summary"]
        /\ final_ranked_answers = FirstThree

C19_Witness ==
    /\ Occurs("send_error")
    /\ pc = "failed"
    /\ messages0 = <<UserMessage>>
    /\ Len(messages) = 2
    /\ Len(results0) = 4
    /\ Len(final_ranked_answers) = 3

\* The locations of the results of a list that have an address, in the order
\* of the list.
RECURSIVE LocationsOf(_)
LocationsOf(results) ==
    IF Len(results) = 0 THEN <<>>
    ELSE ScanResult(Result(results[1])).loc \o LocationsOf(Tail(results))

\* C20: the locations the map message carries are those of the full ranked
\* list that entered the pass, in ranked order, fixed when classification
\* runs: the truncation of final_ranked_answers on the summarize path never
\* changes what the detached delivery sends, whichever happens first, and
\* classification leaves final_ranked_answers unchanged.
C20_LocationsFixedAtClassify ==
    /\ (map_message # <<>> => map_message[1].locations = LocationsOf(results0))
    /\ \A i \in Sends("results_map") :
           outbox[i].of.locations = LocationsOf(results0)
    /\ (Occurs("classify") /\ ~Occurs("truncate") => final_ranked_answers = results0)

C20_Witness ==
    /\ results0 = <<"cafe", "inn", "doc", "cafe">>
    /\ Occurs("truncate")
    /\ final_ranked_answers = <<"cafe", "inn", "doc">>
    /\ map_task = "delivered"
    /\ Sends("results_map") = {1}
    /\ Len(outbox[1].of.locations) = 3

(***************************************************************************)
(* Properties of the classification of single results.                     *)
(***************************************************************************)
\* The results of the starting list that are records with a dict schema_object.
WithSchema ==
    {i \in 1..Len(results0) :
        LET r == Result(results0[i])
        IN  /\ r.t = "dict"
            /\ "schema_object" \in DOMAIN r.v
            /\ r.v["schema_object"].t = "dict"}

SchemaOf(i) == Result(results0[i]).v["schema_object"].v

\* The results whose scan raises.
Raising == {i \in 1..Len(results0) : ScanResult(Result(results0[i])).st = "raise"}

\* The location the scan gives result i (empty when it gives none).
LocOf(i) == ScanResult(Result(results0[i])).loc

\* The map message that was handed to create_task, when the list is a single
\* result: its one location.
SingleEmitted == Len(results0) = 1 /\ map_message # <<>>

EmittedLoc == map_message[1].locations[1]

\* The smallest member of a nonempty set of numbers.
Least(S) == CHOOSE i \in S : \A j \in S : i <= j

\* C13: a result whose address data is malformed is skipped individually: it
\* is left out of the candidates, every other result is still examined and
\* counted, and the map message is emitted when the remaining results with an
\* address meet the quorum.
Malformed(i) ==
    \/ i \in Raising
    \/ /\ Result(results0[i]).t = "dict"
       /\ "schema_object" \in DOMAIN Result(results0[i]).v
       /\ \/ i \notin WithSchema
          \/ /\ AddressCandidate(SchemaOf(i)).t = "dict"
             /\ LocOf(i) = <<>>

C13_MalformedSkippedIndividually ==
    Occurs("classify") /\ (\E i \in 1..Len(results0) : Malformed(i)) =>
        LET good == {i \in 1..Len(results0) : ~Malformed(i) /\ LocOf(i) # <<>>}
        IN  /\ MapEmitted <=>
                  (Cardinality(good) > 0 /\ 2 * Cardinality(good) >= Len(results0))
            /\ (map_message # <<>> =>
                  /\ Len(map_message[1].locations) = Cardinality(good)
                  /\ \A i \in 1..Len(results0) :
                         Malformed(i) => LocOf(i) = <<>>)

\* What holds of malformed results: one that does not make the scan raise (a
\* schema_object that is no dict, a structured address without any of the
\* fields) is skipped individually and the quorum is taken over the rest.
MalformedSkippedUnlessRaising ==
    Occurs("classify") /\ Raising = {} =>
        LET good == {i \in 1..Len(results0) : ~Malformed(i) /\ LocOf(i) # <<>>}
        IN  /\ MapEmitted <=>
                  (Cardinality(good) > 0 /\ 2 * Cardinality(good) >= Len(results0))
            /\ (map_message # <<>> =>
                  Len(map_message[1].locations) = Cardinality(good))

\* C14: a result whose resolved address value is neither a string nor a
\* mapping (a number, a list) is treated as having no address: it gives no
\* entry to the map locations and is not counted toward the quorum.
OtherShape(i) ==
    /\ i \in WithSchema
    /\ AddressCandidate(SchemaOf(i)).t \notin {"str", "dict", "none"}

C14_OtherShapesAbsent ==
    Occurs("classify") /\ Raising = {} =>
        LET counted == {i \in 1..Len(results0) : LocOf(i) # <<>> /\ ~OtherShape(i)}
        IN  /\ \A i \in 1..Len(results0) : OtherShape(i) => LocOf(i) = <<>>
            /\ MapEmitted <=>
                  (Cardinality(counted) > 0 /\ 2 * Cardinality(counted) >= Len(results0))

\* What holds of such values: a truthy one (a number other than 0, a list
\* that is not empty) is a candidate whose address is str(value); a falsy one
\* is no candidate.
OtherShapesStringified ==
    Occurs("classify") =>
    \A i \in 1..Len(results0) :
        OtherShape(i) =>
            LET a == AddressCandidate(SchemaOf(i))
            IN  IF Truthy(a)
                THEN Len(LocOf(i)) = 1 /\ LocOf(i)[1].address = Str(a)
                ELSE LocOf(i) = <<>>

\* C15 as stated: the address candidate is the value of the first field that
\* is present in schema_object, in the order address, location,
\* streetAddress, postalAddress; a later field is consulted only when every
\* earlier field is not present.
PresentFields(i) ==
    {k \in 1..Len(AddressFields) : AddressFields[k] \in DOMAIN SchemaOf(i)}

C15_FirstPresentWins ==
    Occurs("classify") =>
        \A i \in WithSchema \ Raising :
            LET v == IF PresentFields(i) = {} THEN None
                     ELSE SchemaOf(i)[AddressFields[Least(PresentFields(i))]]
                r == ResolveCandidate(v)
            IN  IF r.st = "ok" /\ Truthy(r.val)
                THEN Len(LocOf(i)) = 1 /\ LocOf(i)[1].address = Str(r.val)
                ELSE LocOf(i) = <<>>

\* C15 as it holds: the address candidate is the value of the first field, in
\* that order, whose value is truthy; a later field is consulted when every
\* earlier field is missing or has a falsy value (None, "", 0, an empty list
\* or mapping); when no field is truthy there is no candidate.  The location
\* emitted for a single result is resolved from that field.
TruthyFields(i) ==
    {k \in 1..Len(AddressFields) : Truthy(Get(SchemaOf(i), AddressFields[k]))}

C15_FirstTruthyWins ==
    Occurs("classify") =>
    /\ \A i \in WithSchema :
           LET c == AddressCandidate(SchemaOf(i))
           IN  IF TruthyFields(i) = {}
               THEN ~Truthy(c) /\ (i \notin Raising => LocOf(i) = <<>>)
               ELSE c = SchemaOf(i)[AddressFields[Least(TruthyFields(i))]]
    /\ (SingleEmitted /\ 1 \in WithSchema =>
           /\ TruthyFields(1) # {}
           /\ EmittedLoc.address =
                  Str(ResolveCandidate(
                          SchemaOf(1)[AddressFields[Least(TruthyFields(1))]]).val))

C15_Witness ==
    /\ results0 = <<"empty_then_location">>
    /\ Occurs("map_scheduled")
    /\ EmittedLoc.address = <<"Rome">>

\* C16: a structured address resolves to the ", "-joined sequence of its
\* present streetAddress, addressLocality, addressRegion, postalCode values
\* in that order, each included only if its value is a scalar, followed by
\* the country name; if nothing is extracted the result is no candidate.
Scalar(x) == x.t \in {"str", "int", "none"}

RECURSIVE ClaimedParts(_, _)
ClaimedParts(address, fields) ==
    IF Len(fields) = 0 THEN <<>>
    ELSE IF fields[1] \in DOMAIN address /\ Scalar(address[fields[1]])
    THEN <<Str(address[fields[1]])>> \o ClaimedParts(address, Tail(fields))
    ELSE ClaimedParts(address, Tail(fields))

ClaimedCountry(address) ==
    IF "addressCountry" \notin DOMAIN address THEN <<>>
    ELSE LET country == address["addressCountry"]
         IN  IF country.t = "dict" /\ "name" \in DOMAIN country.v
             THEN <<Str(country.v["name"])>>
             ELSE IF country.t = "str" /\ ~(Len(country.v) > 0 /\ country.v[1] = "{")
             THEN <<country.v>>
             ELSE <<>>

Structured(i) ==
    /\ i \in WithSchema
    /\ i \notin Raising
    /\ AddressCandidate(SchemaOf(i)).t = "dict"

C16_StructuredAddressJoined ==
    Occurs("classify") =>
    \A i \in 1..Len(results0) :
        Structured(i) =>
            LET a     == AddressCandidate(SchemaOf(i)).v
                parts == ClaimedParts(a, <<"streetAddress", "addressLocality",
                                           "addressRegion", "postalCode">>)
                             \o ClaimedCountry(a)
            IN  IF Len(parts) = 0 THEN LocOf(i) = <<>>
                ELSE /\ Len(LocOf(i)) = 1
                     /\ LocOf(i)[1].address = Join(parts)
                     /\ (SingleEmitted => EmittedLoc.address = Join(parts))

\* C17: a string address that contains "{" is cut at the marker: the emitted
\* address is the prefix before the ", {" separator, and no emitted address
\* of this kind still contains the embedded structure.
BraceString(i) ==
    /\ i \in WithSchema
    /\ AddressCandidate(SchemaOf(i)).t = "str"
    /\ \E k \in 1..Len(AddressCandidate(SchemaOf(i)).v) :
           AddressCandidate(SchemaOf(i)).v[k] = "{"

C17_BraceStringTruncated ==
    Occurs("classify") =>
    \A i \in 1..Len(results0) :
        BraceString(i) =>
            /\ \A k \in 1..Len(LocOf(i)) :
                   \A n \in 1..Len(LocOf(i)[k].address) : LocOf(i)[k].address[n] # "{"
            /\ (SingleEmitted =>
                   \A n \in 1..Len(EmittedLoc.address) : EmittedLoc.address[n] # "{")

\* C18: every map location has the result's name as title when the result
\* has a non-empty name and "Unnamed" otherwise (name missing or empty); its
\* address is the string form of the resolved address.
ClaimedTitle(r) ==
    IF "name" \in DOMAIN r.v /\ Truthy(r.v["name"]) THEN r.v["name"]
    ELSE StrV(<<"Unnamed">>)

C18_TitleOrUnnamed ==
    Occurs("classify") =>
    \A i \in WithSchema :
        /\ \A k \in 1..Len(LocOf(i)) :
               LocOf(i)[k].title = ClaimedTitle(Result(results0[i]))
        /\ (SingleEmitted /\ i = 1 =>
               /\ EmittedLoc.title = ClaimedTitle(Result(results0[1]))
               /\ EmittedLoc.address =
                      Str(ResolveAddress(Result(results0[1]).v["schema_object"]).val))

(***************************************************************************)
(* Properties of the search client.                                        *)
(***************************************************************************)
\* Whether the call that has ended met a failure: the GET or the decoding of
\* its body raised, or the reading of the decoded body raised.
GetFailed == http \in HTTPErrors \cup OtherExceptions

ReadFailed == http = "ok" /\ ReadItems(Body(data), num_results).st = "raise"

FailedSoft ==
    /\ search_out = Returned(ListV(<<>>))
    /\ caller = "search_by_url" => by_url_out = Returned(None)

\* C12: search never propagates a failure.  When the GET fails in transport,
\* ends in an HTTP error status, or anything unexpected fails while the
\* response is obtained and interpreted, search returns the empty list, and
\* search_by_url then returns None.
C12_SearchNeverPropagates ==
    cse_pc = "done" =>
        /\ search_out.st = "return"
        /\ (GetFailed \/ ReadFailed) => FailedSoft

\* What holds of the failures: those raised inside the try of lines 77-81
\* are turned into the empty list.
SearchFailsSoftInsideTry == (cse_pc = "done" /\ GetFailed) => FailedSoft

\* A body of the documented shape never makes search raise, and gives one
\* row for each of the items the slice keeps.
SearchReadsWellFormed ==
    (cse_pc = "done" /\ http = "ok" /\ data \in WellFormed) =>
        /\ search_out.st = "return"
        /\ Len(search_out.val.v)
             = Len(SliceTo(GetOr(Body(data).v, "items", ListV(<<>>)).v, num_results))

\* A failure of the reading of the body leaves search as an exception, and
\* leaves search_by_url as the same exception.
ReadFailurePropagates ==
    (cse_pc = "done" /\ ReadFailed) =>
        /\ search_out.st = "raise"
        /\ caller = "search_by_url" => by_url_out = search_out
====
